---- MODULE Spec2Model ----
(***************************************************************************)
(* A model of the etf_analyzer package: the rate limiter and the on-disk   *)
(* cache of utils.py, the reconciliation and trading-cost paths of         *)
(* analyzer.py and the severity classification of cli.py.                  *)
(*                                                                         *)
(* Conventions.  Every Python value is a record: None is [none |-> TRUE],  *)
(* a float is an exact rational [n, d] with d > 0 in lowest terms, a dict  *)
(* is a record whose absent keys hold Missing.  Times are whole seconds.   *)
(* Money is in millions of dollars and share volume in thousands of        *)
(* shares, so that every product stays inside TLC's integers.              *)
(***************************************************************************)
EXTENDS Integers, Sequences, FiniteSets, TLC

VARIABLES
    clock,          \* datetime.now(), in seconds
    ticks,          \* how many times the clock was advanced by the environment
    ops,            \* how many operations were invoked so far
    intervals,      \* rate_limit's closure dict: function name -> last call time
    calls,          \* the invocations of the wrapped function, in order
    threads,        \* per concurrent caller of the wrapper, where it stands
    files,          \* the cache directory: file name -> [timestamp, data]
    lastSet,        \* per cache file, the arguments of the last set call on it
    ticker,         \* self.ticker
    basic,          \* self.data['basic']
    price_history,  \* self.data['price_history']
    benchmark_history,  \* self.data['benchmark_history'], Missing while the key is absent
    real_time,      \* self.data['real_time'], Missing while the key is absent
    metrics,        \* self.metrics
    prev,           \* the last two results of the liquidity score: [last, before]
    ret             \* what the last operation returned (or that it raised)

limiterVars == <<intervals, calls, threads>>
cacheVars == <<files, lastSet>>
dataVars == <<basic, price_history, benchmark_history, real_time>>
metricVars == <<metrics, prev>>

vars == <<clock, ticks, ops, intervals, calls, threads, files, lastSet, ticker, basic,
          price_history, benchmark_history, real_time, metrics, prev, ret>>

None == [none |-> TRUE]          \* Python's None
Missing == [missing |-> TRUE]    \* a key that a dict does not hold

----------------------------------------------------------------------------
(* Bounds of the model *)

\* Clock advances by the environment.
MaxTicks == 2
\* Operations on one analyzer.
MaxOps == 7
\* Operations in the specifications of the rate limiter, of the cache, of the
\* reconciliation and of the trading costs.
MaxLimiterOps == 3
MaxCacheOps == 3
MaxValidateOps == 3
MaxCostsOps == 4
\* Operations in the specification of the liquidity score of one fund.
MaxLiquidityOps == 4
\* Operations in the specification of the tracking error.
MaxTrackingOps == 4
\* Operations in the specification of the quote guard.
MaxQuoteOps == 3
\* Operations in the specification of collect_performance.
MaxPerformanceOps == 3
\* Operations in the specification of calculate_metrics.
MaxMetricsOps == 4
\* Entries of the concurrent callers into the rate limiter.
MaxThreadOps == 3
\* Length of a price series.
MaxLen == 4

----------------------------------------------------------------------------
(* Exact arithmetic standing in for Python floats *)

RECURSIVE GCD(_, _)
GCD(a, b) == IF b = 0 THEN a ELSE GCD(b, a % b)

IAbs(n) == IF n < 0 THEN -n ELSE n

R(a, b) ==
    LET s == IF b < 0 THEN -1 ELSE 1
        g == GCD(IAbs(a), IAbs(b))
    IN  [n |-> (s * a) \div g, d |-> (s * b) \div g]

Zero == R(0, 1)
RAdd(x, y) == R(x.n * y.d + y.n * x.d, x.d * y.d)
RSub(x, y) == R(x.n * y.d - y.n * x.d, x.d * y.d)
RMul(x, y) == R(x.n * y.n, x.d * y.d)
RDiv(x, y) == R(x.n * y.d, x.d * y.n)
RAbs(x) == [n |-> IAbs(x.n), d |-> x.d]
RLt(x, y) == x.n * y.d < y.n * x.d
RLe(x, y) == x.n * y.d <= y.n * x.d
RMax(x, y) == IF RLt(x, y) THEN y ELSE x

----------------------------------------------------------------------------
(* Python values *)

\* Python truthiness of a number or None, and the `or` of two values.
Truthy(v) == v # None /\ v # Missing /\ v # Zero
Or(a, b) == IF Truthy(a) THEN a ELSE b

\* dict.get(key, default) on a field that may be Missing.
Get(v, default) == IF v = Missing THEN default ELSE v

\* What an operation hands back: its name, the key or time it was called with,
\* the exception it raised ("" for none), the value it returned, and for the
\* operations that look a fund up on ETF.com what the site held (input) and
\* what the lookup returned (ext).
Ret(op, t, source, at, exc, value, input, ext) ==
    [op |-> op, ticker |-> t, source |-> source, at |-> at, exc |-> exc,
     value |-> value, input |-> input, ext |-> ext]

Ok(v) == [exc |-> "", value |-> v]
Raise(e) == [exc |-> e, value |-> None]

----------------------------------------------------------------------------
(* utils.py: rate_limit *)

CallsPerMinute == 5
MinInterval == 60 \div CallsPerMinute

FuncName == "_get_etf_com_metrics"

\* How long the caller sleeps (utils.py 17-23) when it arrives at `now`.
sleep_time(iv, now) ==
    IF FuncName \in DOMAIN iv /\ now - iv[FuncName] < MinInterval
    THEN MinInterval - (now - iv[FuncName])
    ELSE 0

\* What the wrapper stores as the last call time (utils.py 25).
last_call_stored(now, started) == now

\* The wrapper around one call arriving at `now` (utils.py 13-26): it sleeps,
\* records the call and invokes the wrapped function, which starts when the
\* sleep is over.  `outcome` is what the wrapped function then meets.
\* `by` names the operation that made the call.
wrapper(now, outcome, by) ==
    LET started == now + sleep_time(intervals, now)
    IN  /\ intervals' = [n \in {FuncName} |-> last_call_stored(now, started)]
        /\ calls' = Append(calls, [at |-> started, ticker |-> ticker,
                                   outcome |-> outcome, by |-> by])
        /\ UNCHANGED threads

\* Two callers that run the wrapper at the same time, each for a fund of its
\* own: intervals belongs to the decorator, which is applied once, to the
\* method of the class.
Threads == {1, 2}
FundOf(th) == IF th = 1 THEN "SPY" ELSE "SPY_X"

\* Where a caller stands in the wrapper, the `now` it read and the time its
\* sleep ends.
At(pc, now, wake) == [pc |-> pc, now |-> now, wake |-> wake]
Idle == At("idle", 0, 0)

\* utils.py 14-15: the caller enters the wrapper and reads the clock.
Enter(th) ==
    /\ threads[th].pc = "idle"
    /\ ops < MaxThreadOps
    /\ ops' = ops + 1
    /\ threads' = [threads EXCEPT ![th] = At("entered", clock, 0)]
    /\ UNCHANGED <<clock, ticks, ticker, metricVars, intervals, calls, cacheVars,
                   dataVars, ret>>

\* utils.py 17-23: it reads the last call time and finds how long to sleep.
Check(th) ==
    /\ threads[th].pc = "entered"
    /\ threads' = [threads EXCEPT ![th] =
                      IF sleep_time(intervals, threads[th].now) > 0
                      THEN At("sleeping", threads[th].now,
                              clock + sleep_time(intervals, threads[th].now))
                      ELSE At("awake", threads[th].now, 0)]
    /\ UNCHANGED <<clock, ticks, ops, ticker, metricVars, intervals, calls, cacheVars,
                   dataVars, ret>>

\* utils.py 23: time.sleep returns once the time of the sleep has passed.
Wake(th) ==
    /\ threads[th].pc = "sleeping"
    /\ clock' = IF clock < threads[th].wake THEN threads[th].wake ELSE clock
    /\ threads' = [threads EXCEPT ![th] = At("awake", threads[th].now, 0)]
    /\ UNCHANGED <<ticks, ops, ticker, metricVars, intervals, calls, cacheVars,
                   dataVars, ret>>

\* utils.py 25: it stores the `now` it read as the last call time.
Store(th) ==
    /\ threads[th].pc = "awake"
    /\ intervals' = [n \in {FuncName} |-> threads[th].now]
    /\ threads' = [threads EXCEPT ![th] = At("stored", threads[th].now, 0)]
    /\ UNCHANGED <<clock, ticks, ops, ticker, metricVars, calls, cacheVars, dataVars, ret>>

\* utils.py 26: it invokes the wrapped function, which starts now.
Invoke(th) ==
    /\ threads[th].pc = "stored"
    /\ calls' = Append(calls, [at |-> clock, ticker |-> FundOf(th),
                               outcome |-> "page", by |-> "thread"])
    /\ threads' = [threads EXCEPT ![th] = Idle]
    /\ UNCHANGED <<clock, ticks, ops, ticker, metricVars, intervals, cacheVars,
                   dataVars, ret>>

\* The environment lets `d` seconds pass between two operations.
Tick(d) ==
    /\ ticks < MaxTicks
    /\ ticks' = ticks + 1
    /\ clock' = clock + d
    /\ UNCHANGED <<ops, ticker, metricVars, limiterVars, cacheVars, dataVars, ret>>

----------------------------------------------------------------------------
(* utils.py: ETFDataCache *)

TTL == 86400

Tickers == {"SPY", "SPY_X"}
Sources == {"etf_com", "X_etf_com"}

Payloads ==
    { None,
      [expense_ratio |-> R(3, 10000), aum |-> None],
      [expense_ratio |-> R(9, 10000), aum |-> R(1000, 1)] }

cache_file(tk, source) == tk \o "_" \o source \o ".json"

\* json.dump / json.load of one value: None is written as null.
JsonNull == [null |-> TRUE]

json_dump_value(v) == IF v = None THEN JsonNull ELSE v
json_load_value(j) == IF j = JsonNull THEN None ELSE j

json_dump(data) ==
    IF data = None THEN JsonNull
    ELSE [k \in DOMAIN data |-> json_dump_value(data[k])]

json_load(text) ==
    IF text = JsonNull THEN None
    ELSE [k \in DOMAIN text |-> json_load_value(text[k])]

\* A get that also serves an entry of exactly 24 hours.
IsFresh_inclusive(timestamp, now) == now - timestamp <= TTL

IsFresh(timestamp, now) == now - timestamp < TTL

cache_get(fs, now, tk, source) ==
    LET f == cache_file(tk, source)
    IN  IF f \in DOMAIN fs /\ IsFresh(fs[f].timestamp, now)
        THEN json_load(fs[f].data)
        ELSE None

\* A set that keeps an entry that is already there.
cache_set_if_absent(fs, now, tk, source, data) ==
    LET f == cache_file(tk, source)
        entry == [timestamp |-> now, data |-> json_dump(data)]
    IN  [g \in DOMAIN fs \cup {f} |-> IF g \in DOMAIN fs THEN fs[g] ELSE entry]

cache_set(fs, now, tk, source, data) ==
    LET f == cache_file(tk, source)
        entry == [timestamp |-> now, data |-> json_dump(data)]
    IN  [g \in DOMAIN fs \cup {f} |-> IF g = f THEN entry ELSE fs[g]]

CacheGet(t, source) ==
    /\ ops < MaxOps
    /\ ops' = ops + 1
    /\ ret' = Ret("get", t, source, clock, "",
                   cache_get(files, clock, t, source), None, None)
    /\ UNCHANGED <<clock, ticks, ticker, metricVars, limiterVars, files, lastSet, dataVars>>

CacheSet(t, source, data) ==
    /\ ops < MaxOps
    /\ ops' = ops + 1
    /\ files' = cache_set(files, clock, t, source, data)
    /\ lastSet' = LET f == cache_file(t, source)
                       e == [at |-> clock, data |-> data,
                             replaced |-> IF f \in DOMAIN files
                                          THEN files[f].timestamp ELSE -1]
                   IN  [g \in DOMAIN lastSet \cup {f} |->
                            IF g = f THEN e ELSE lastSet[g]]
    /\ ret' = Ret("set", t, source, clock, "", data, None, None)
    /\ UNCHANGED <<clock, ticks, ticker, metricVars, limiterVars, dataVars>>

----------------------------------------------------------------------------
(* analyzer.py: what the outside world hands to the analyzer *)

\* yf.Ticker(ticker).info: the provider's blob, or a failure.
Info(ar, er, ter, ta) ==
    [fails |-> FALSE, annualReportExpenseRatio |-> ar, expenseRatio |-> er,
     totalExpenseRatio |-> ter, totalAssets |-> ta]

Infos ==
    { [Info(Missing, Missing, Missing, Missing) EXCEPT !.fails = TRUE],
      Info(None, None, None, Missing),
      Info(Missing, R(3, 10000), Missing, R(1000, 1)),
      Info(R(9, 10000), R(3, 10000), Missing, None) }

\* What browser.get and the parsers meet on ETF.com: the browser fails, the
\* page does not name the ticker, or a page whose fields parse or do not.
Page(kind, er, aum, vol) ==
    [kind |-> kind, expense_ratio |-> er, aum |-> aum, volume |-> vol, spread |-> None]

Pages ==
    { Page("webdriver_error", None, None, None),
      Page("wrong_page", None, None, None),
      Page("page", None, R(1000, 1), None),
      Page("page", R(3, 10000), None, R(1000, 1)),
      Page("page", R(9, 10000), R(800, 1), R(500, 1)) }

\* The dict a metrics lookup returns; a key it does not hold is Missing.
Metrics(er, aum, vol, avg, spread, holdings, issuer) ==
    [expense_ratio |-> er, aum |-> aum, volume |-> vol, avg_volume |-> avg,
     spread |-> spread, holdings |-> holdings, issuer |-> issuer]

\* A price history: the dates of its index, one row a date in the order of
\* the rows, and the volume of each day.
Hist(first, last, vol) ==
    [index |-> [i \in 1..(last - first + 1) |-> first + i - 1], Volume |-> vol]

\* The dates that an index holds.
Dates(index) == {index[i] : i \in 1..Len(index)}

\* Series.mean() of the Volume column.
VolumeMean(h) == h.Volume

----------------------------------------------------------------------------
(* analyzer.py: the external lookup *)

EmptyBasic == [expenseRatio |-> Missing, totalAssets |-> Missing]

\* _get_fallback_metrics, analyzer.py 410-419 (segment, a copy of the
\* category string, is left out).
get_fallback_metrics ==
    IF basic.expenseRatio = Missing THEN Raise("KeyError")
    ELSE IF price_history = None THEN Raise("TypeError")
    ELSE Ok(Metrics(basic.expenseRatio, Get(basic.totalAssets, None), Missing,
                    VolumeMean(price_history), Missing, None, None))

\* The body of _get_etf_com_metrics, analyzer.py 384-408.
etf_com_metrics(page) ==
    IF page.kind = "webdriver_error" THEN get_fallback_metrics
    ELSE IF page.kind = "wrong_page" THEN get_fallback_metrics
    ELSE Ok(Metrics(page.expense_ratio, page.aum, page.volume, Missing,
                    page.spread, Missing, Missing))

\* browser.get sleeps one second once the page is loaded (browser.py 32-33).
PageLoadDelay == 1
fetch_seconds(page) == IF page.kind = "webdriver_error" THEN 0 ELSE PageLoadDelay

\* The rate-limited _get_etf_com_metrics as a step of the enclosing operation:
\* the wrapper's sleep, the log of the call and the time the fetch takes.
rate_limited_fetch(page, by) ==
    /\ wrapper(clock, page.kind, by)
    /\ clock' = clock + sleep_time(intervals, clock) + fetch_seconds(page)

\* A direct call of _get_etf_com_metrics (examples/advanced_usage.py 10).
get_etf_com_metrics(page) ==
    /\ ops < MaxOps
    /\ ops' = ops + 1
    /\ rate_limited_fetch(page, "get_etf_com_metrics")
    /\ ret' = Ret("get_etf_com_metrics", ticker, "", clock,
                   etf_com_metrics(page).exc, etf_com_metrics(page).value,
                   page, etf_com_metrics(page).value)
    /\ UNCHANGED <<ticks, ticker, metricVars, cacheVars, dataVars>>

----------------------------------------------------------------------------
(* analyzer.py: collect_basic_info and collect_performance *)

\* analyzer.py 58: none of the three expense-ratio fields is there.
no_expense_field(info) ==
    ~ \/ Truthy(Get(info.expenseRatio, None))
      \/ Truthy(Get(info.annualReportExpenseRatio, None))
      \/ Truthy(Get(info.totalExpenseRatio, None))

\* analyzer.py 70-74.
yahoo_expense_ratio(info) ==
    Or(Or(Get(info.annualReportExpenseRatio, None), Get(info.expenseRatio, None)),
       Get(info.totalExpenseRatio, None))

\* analyzer.py 77-83: the dict that collect_basic_info stores.
basic_of(info, expense_ratio) ==
    [expenseRatio |-> IF expense_ratio # None THEN expense_ratio ELSE Zero,
     totalAssets |-> Get(info.totalAssets, Zero)]

collect_basic_info(info, page) ==
    /\ ops < MaxOps
    /\ ops' = ops + 1
    /\ IF info.fails
       THEN /\ ret' = Ret("collect_basic_info", ticker, "", clock, "RuntimeError",
                          None, [info |-> info, page |-> None], None)
            /\ UNCHANGED <<clock, limiterVars, basic>>
       ELSE IF no_expense_field(info)
       THEN LET etf == etf_com_metrics(page)
                from_site == IF etf.exc = "" /\ etf.value.expense_ratio # Missing
                             THEN etf.value.expense_ratio ELSE None
                expense_ratio == IF from_site # None THEN from_site
                                 ELSE yahoo_expense_ratio(info)
            IN  /\ rate_limited_fetch(page, "collect_basic_info")
                /\ IF etf.exc # ""
                   THEN /\ ret' = Ret("collect_basic_info", ticker, "", clock,
                                      "RuntimeError", None,
                                      [info |-> info, page |-> page], None)
                        /\ UNCHANGED basic
                   ELSE /\ basic' = basic_of(info, expense_ratio)
                        /\ ret' = Ret("collect_basic_info", ticker, "", clock, "",
                                      None, [info |-> info, page |-> page], etf.value)
       ELSE /\ basic' = basic_of(info, yahoo_expense_ratio(info))
            /\ ret' = Ret("collect_basic_info", ticker, "", clock, "", None,
                          [info |-> info, page |-> None], None)
            /\ UNCHANGED <<clock, limiterVars>>
    /\ UNCHANGED <<ticks, ticker, metricVars, cacheVars, price_history, benchmark_history,
                   real_time>>

Benchmark == "SPY"
MinHistory == 30

\* yf.Ticker(t).history(period="1y"): a history, or a failure.
Fetched(h) == [fails |-> FALSE, hist |-> h]
FetchFails == [fails |-> TRUE, hist |-> Hist(1, 0, Zero)]

\* An intersection that keeps every date of the first index.
index_intersection_all(a, b) == a

\* Index.intersection, analyzer.py 132: the dates of a that b holds too, in
\* the order they have in a.
index_intersection(a, b) ==
    LET held(d) == d \in Dates(b)
    IN  SelectSeq(a, held)

\* DataFrame.loc[dates], analyzer.py 136-137: the rows of the dates, in the
\* order of the dates.
Loc(h, dates) == [h EXCEPT !.index = dates]

\* collect_performance, analyzer.py 98-143; h and b are what history(period=
\* "1y") gives for the subject and for the benchmark, and the result keeps
\* what was fetched.
collect_performance(h, b) ==
    LET common == index_intersection(h.hist.index, b.hist.index)
        fetched == [subject |-> h,
                    benchmark |-> IF h.fails \/ Len(h.hist.index) < MinHistory
                                     \/ ticker = Benchmark
                                  THEN None ELSE b]
        raised == Ret("collect_performance", ticker, "", clock, "RuntimeError",
                      None, fetched, None)
        done == Ret("collect_performance", ticker, "", clock, "", None, fetched, None)
    IN
    /\ ops < MaxOps
    /\ ops' = ops + 1
    /\ IF h.fails \/ Len(h.hist.index) < MinHistory
       THEN /\ ret' = raised
            /\ UNCHANGED <<price_history, benchmark_history>>
       ELSE IF ticker = Benchmark
       THEN /\ price_history' = h.hist
            /\ ret' = done
            /\ UNCHANGED benchmark_history
       ELSE IF b.fails
       THEN /\ price_history' = h.hist
            /\ ret' = raised
            /\ UNCHANGED benchmark_history
       ELSE IF Len(b.hist.index) < MinHistory
               \/ Len(common) < MinHistory
       THEN /\ price_history' = h.hist
            /\ benchmark_history' = b.hist
            /\ ret' = raised
       ELSE /\ price_history' = Loc(h.hist, common)
            /\ benchmark_history' = Loc(b.hist, common)
            /\ ret' = done
    /\ UNCHANGED <<clock, ticks, ticker, metricVars, limiterVars, cacheVars, basic, real_time>>

SubjectHistories ==
    { FetchFails, Fetched(Hist(1, 29, R(1000, 1))), Fetched(Hist(1, 30, R(1000, 1))),
      Fetched(Hist(3, 35, Zero)) }

BenchmarkHistories ==
    { FetchFails, Fetched(Hist(1, 29, R(5000, 1))), Fetched(Hist(1, 32, R(5000, 1))) }

----------------------------------------------------------------------------
(* analyzer.py: validate_metrics *)

\* _fetch_external_expense_ratio, analyzer.py 310-325.
fetch_external_expense_ratio(info) ==
    IF info.fails THEN Zero ELSE Or(yahoo_expense_ratio(info), Zero)

VRecord(our, ext, diff) ==
    [our_value |-> our, external_value |-> ext, difference |-> diff]

\* analyzer.py 273-280.
validate_expense(etf, info) ==
    LET our == Get(basic.expenseRatio, None)
        ext == IF etf # None THEN Get(etf.expense_ratio, None)
               ELSE fetch_external_expense_ratio(info)
    IN  IF our # None \/ ext # None
        THEN VRecord(our, ext, IF our # None /\ ext # None
                               THEN RAbs(RSub(our, ext)) ELSE None)
        ELSE Missing

\* analyzer.py 283-295.
validate_aum(etf) ==
    IF etf # None /\ etf.aum # Missing
    THEN LET our == Get(basic.totalAssets, None)
             ext == etf.aum
             avg == RDiv(RAdd(our, ext), R(2, 1))
         IN  IF our # None /\ ext # None
             THEN VRecord(our, ext, IF RLt(Zero, avg)
                                    THEN RDiv(RAbs(RSub(our, ext)), avg) ELSE None)
             ELSE Missing
    ELSE Missing

\* analyzer.py 298-306; the read of price_history raises on None.
validate_volume(etf) ==
    IF etf # None /\ etf.avg_volume # Missing
    THEN IF price_history = None THEN Raise("TypeError")
         ELSE LET our == VolumeMean(price_history)
                  ext == etf.avg_volume
              IN  Ok(IF our # None \/ ext # None
                     THEN VRecord(our, ext, IF Truthy(our) /\ Truthy(ext)
                                            THEN RDiv(RAbs(RSub(our, ext)), RMax(our, ext))
                                            ELSE None)
                     ELSE Missing)
    ELSE Ok(Missing)

validate_metrics(page, info) ==
    LET etf == etf_com_metrics(page)
        vol == validate_volume(etf.value)
        exc == IF etf.exc # "" THEN etf.exc ELSE vol.exc
        data == [ExpenseRatio |-> validate_expense(etf.value, info),
                 AUM |-> validate_aum(etf.value),
                 Volume |-> vol.value]
    IN
    /\ ops < MaxOps
    /\ ops' = ops + 1
    /\ rate_limited_fetch(page, "validate_metrics")
    /\ ret' = Ret("validate_metrics", ticker, "", clock, exc,
                   IF exc = "" THEN data ELSE None, page, etf.value)
    /\ UNCHANGED <<ticks, ticker, metricVars, cacheVars, dataVars>>

----------------------------------------------------------------------------
(* analyzer.py: collect_real_time_data and analyze_trading_costs *)

\* yf.Ticker(ticker).info as a quote, or a failure.
Quote(bid, ask, stamp) == [fails |-> FALSE, bid |-> bid, ask |-> ask, timestamp |-> stamp]

Quotes ==
    { [Quote(None, None, None) EXCEPT !.fails = TRUE],
      Quote(None, None, R(0, 1)),
      Quote(Zero, Zero, R(0, 1)),
      Quote(R(-1, 1), R(100, 1), R(0, 1)),
      Quote(R(100, 1), None, R(0, 1)),
      Quote(R(100, 1), R(1001, 10), R(0, 1)),
      Quote(R(399, 2), R(401, 2), R(0, 1)),
      Quote(R(100, 1), R(101, 1), R(0, 1)),
      Quote(R(101, 1), R(100, 1), R(0, 1)) }

\* isinstance(x, (int, float)), analyzer.py 565.
IsNumber(v) == v # None /\ v # Missing

RealTime(bid, ask, iiv, stamp, status, spread, spread_pct) ==
    [bid |-> bid, ask |-> ask, iiv |-> iiv, timestamp |-> stamp,
     market_status |-> status, spread |-> spread, spread_pct |-> spread_pct]

\* A pd.Timestamp: the moment s seconds after the clock's origin. A quote's
\* regularMarketTime is no Timestamp but a whole number of seconds since 1970.
Instant(s) == [instant |-> s]

\* The one-day history's last row is dated at the midnight that began the
\* last trading day: 16 hours or more before any moment the market is closed.
BarAge == 57600

\* _get_last_known_values, analyzer.py 577-592: a dict when the one-day
\* history has a row, None otherwise (last_price is left out).
last_known_values(has_row) ==
    IF has_row
    THEN RealTime(None, None, Missing, Instant(clock - BarAge), "closed", Missing, Missing)
    ELSE None

\* analyzer.py 555-568: the dict built from a live quote.
quote_data(q) ==
    LET valid == IsNumber(q.bid) /\ IsNumber(q.ask)
                 /\ RLt(Zero, q.bid) /\ RLt(Zero, q.ask)
        spread == RSub(q.ask, q.bid)
        mid == RDiv(RAdd(q.bid, q.ask), R(2, 1))
    IN  RealTime(q.bid, q.ask, None, q.timestamp, "open",
                 IF valid THEN spread ELSE Missing,
                 IF valid THEN RDiv(spread, mid) ELSE Missing)

collect_real_time_data(market_open, q, has_row) ==
    /\ ops < MaxOps
    /\ ops' = ops + 1
    /\ IF ~market_open
       THEN IF has_row
            THEN /\ real_time' = last_known_values(TRUE)
                 /\ ret' = Ret("collect_real_time_data", ticker, "", clock, "",
                               last_known_values(TRUE), None, None)
            ELSE /\ ret' = Ret("collect_real_time_data", ticker, "", clock, "",
                               None, None, None)
                 /\ UNCHANGED real_time
       ELSE IF q.fails
       THEN /\ ret' = Ret("collect_real_time_data", ticker, "", clock, "",
                          last_known_values(has_row), None, None)
            /\ UNCHANGED real_time
       ELSE /\ real_time' = quote_data(q)
            /\ ret' = Ret("collect_real_time_data", ticker, "", clock, "",
                          quote_data(q), None, None)
    /\ UNCHANGED <<clock, ticks, ticker, metricVars, limiterVars, cacheVars, basic,
                   price_history, benchmark_history>>

NoRealTimeAlert == "No real-time data available - showing expense ratio only"
NoBidAskAlert == "No real-time bid/ask data available"
DefaultImpactAlert == "Using default market impact estimate - no volume data available"
ErrorAlert == "Error calculating costs"

Costs(er, spread_cost, market_impact, one_way, round_trip, alerts) ==
    [expense_ratio |-> er, spread_cost |-> spread_cost,
     market_impact |-> market_impact, one_way |-> one_way,
     round_trip |-> round_trip, alerts |-> alerts]

\* analyzer.py 677 and 681: the share of the spread taken as market impact.
ImpactFactor == R(1, 10)

\* A round trip that is not doubled.
round_trip_single(one_way) == one_way

\* analyzer.py 688 and 651: the round trip of a one-way cost.
round_trip_of(one_way) == RMul(one_way, R(2, 1))

\* A test that only looks for absent or zero prices.
no_bid_ask_falsy_only(bid, ask) == ~Truthy(bid) \/ ~Truthy(ask)

\* analyzer.py 666.
no_bid_ask(bid, ask) ==
    \/ ~Truthy(bid)
    \/ ~Truthy(ask)
    \/ RLe(bid, Zero)
    \/ RLe(ask, Zero)

\* analyzer.py 670-690: the costs once bid and ask are there.
full_costs(er, bid, ask) ==
    LET spread_pct == RDiv(RSub(ask, bid), RDiv(RAdd(bid, ask), R(2, 1)))
        spread_cost == RDiv(spread_pct, R(2, 1))
        avg_volume == VolumeMean(price_history)
        market_impact == RMul(spread_cost, ImpactFactor)
        alerts == IF Truthy(avg_volume) /\ RLt(Zero, avg_volume)
                  THEN <<>> ELSE <<DefaultImpactAlert>>
        one_way == RAdd(RAdd(Or(spread_cost, Zero), Or(market_impact, Zero)), er)
    IN  Costs(er, spread_cost, market_impact, one_way, round_trip_of(one_way), alerts)

\* analyze_trading_costs, analyzer.py 643-699.
trading_costs ==
    LET er == Get(basic.expenseRatio, Zero)
        only_er(alerts) == Costs(er, None, None, er, round_trip_of(er), alerts)
    IN  IF real_time = Missing THEN only_er(<<NoRealTimeAlert>>)
        ELSE IF no_bid_ask(Get(real_time.bid, None), Get(real_time.ask, None))
        THEN only_er(<<NoBidAskAlert>>)
        ELSE IF price_history = None THEN only_er(<<ErrorAlert>>)
        ELSE full_costs(er, real_time.bid, real_time.ask)

analyze_trading_costs ==
    /\ ops < MaxOps
    /\ ops' = ops + 1
    /\ ret' = Ret("analyze_trading_costs", ticker, "", clock, "", trading_costs,
                   None, None)
    /\ UNCHANGED <<clock, ticks, ticker, metricVars, limiterVars, cacheVars, dataVars>>

----------------------------------------------------------------------------
(* cli.py: severity of a difference *)

Threshold(low, medium) == [low |-> low, medium |-> medium]

\* cli.py 310-317.
thresholds(metric) ==
    CASE metric = "Expense Ratio" -> Threshold(R(1, 10000), R(5, 10000))
      [] metric = "AUM" -> Threshold(R(10, 100), R(25, 100))
      [] metric = "Volume" -> Threshold(R(15, 100), R(30, 100))
      [] OTHER -> Threshold(R(5, 100), R(15, 100))

\* A classification whose bands leave their upper ends out.
difference_style_strict(diff, metric) ==
    IF diff = None THEN "white"
    ELSE IF RLt(diff, thresholds(metric).low) THEN "green"
    ELSE IF RLt(diff, thresholds(metric).medium) THEN "yellow"
    ELSE "red"

\* _get_difference_style, cli.py 304-324.
difference_style(diff, metric) ==
    IF diff = None THEN "white"
    ELSE IF RLe(diff, thresholds(metric).low) THEN "green"
    ELSE IF RLe(diff, thresholds(metric).medium) THEN "yellow"
    ELSE "red"

get_difference_style(diff, metric) ==
    /\ ret' = Ret("_get_difference_style", "", metric, 0, "",
                   [style |-> difference_style(diff, metric)], [diff |-> diff], None)
    /\ UNCHANGED <<clock, ticks, ops, ticker, metricVars, limiterVars, cacheVars, dataVars>>

----------------------------------------------------------------------------
(* cli.py: the note on a difference *)

\* cli.py 331-347: the notes of a metric, by level.
notes(metric) ==
    CASE metric = "Expense Ratio" ->
            [high |-> "Significant variation in expense ratio reporting",
             medium |-> "Minor discrepancy in expense ratio", low |-> ""]
      [] metric = "AUM" ->
            [high |-> "Large AUM difference, possibly due to reporting date mismatch",
             medium |-> "AUM varies between sources", low |-> ""]
      [] metric = "Volume" ->
            [high |-> "Volume differs significantly, check market conditions",
             medium |-> "Volume varies between sources", low |-> ""]

NotedMetrics == {"Expense Ratio", "AUM", "Volume"}

\* cli.py 351 and 353: the levels above which a note is given.
NoteHigh == R(25, 100)
NoteMedium == R(10, 100)

\* _get_difference_note, cli.py 326-356.
difference_note(diff, metric) ==
    IF diff = None THEN ""
    ELSE IF metric \in NotedMetrics /\ RLt(NoteHigh, diff) THEN notes(metric).high
    ELSE IF metric \in NotedMetrics /\ RLt(NoteMedium, diff) THEN notes(metric).medium
    ELSE ""

get_difference_note(diff, metric) ==
    /\ ret' = Ret("_get_difference_note", "", metric, 0, "",
                   [note |-> difference_note(diff, metric)], [diff |-> diff], None)
    /\ UNCHANGED <<clock, ticks, ops, ticker, metricVars, limiterVars, cacheVars, dataVars>>

----------------------------------------------------------------------------
(* analyzer.py: the liquidity score *)

\* self.metrics, a dict that __init__ leaves {}: the five keys that
\* calculate_metrics builds and the three that the liquidity score writes.
NoMetrics ==
    [volatility |-> Missing, tracking_error |-> Missing, liquidity_score |-> Missing,
     sharpe_ratio |-> Missing, max_drawdown |-> Missing,
     volume_score |-> Missing, spread_score |-> Missing, asset_score |-> Missing]

SubScores(v, s, a) == [volume_score |-> v, spread_score |-> s, asset_score |-> a]

\* A min that lets every value through.
Min_uncapped(cap, x) == x

\* min(cap, x) of Python: x when x < cap, cap otherwise.
Min(cap, x) == IF RLt(x, cap) THEN x ELSE cap

\* analyzer.py 226: 40 points at 1,000,000 shares, 25 thousand shares a point.
VolumeCap == 40
VolumePerPoint == 25

\* analyzer.py 229-230: 30 points at the reference spread of 0.01.
SpreadCap == 30
DefaultSpread == R(1, 100)

\* analyzer.py 234: 30 points at $1B, here 1000 $M.
AssetCap == 30
AssetFull == 1000

\* What _calculate_liquidity_score reads: the mean volume (None when there is
\* no price history to subscript), the spread and the assets.
liquidity_inputs ==
    [volume |-> IF price_history = None THEN None ELSE VolumeMean(price_history),
     spread |-> IF real_time = Missing THEN DefaultSpread
                ELSE Get(real_time.spread_pct, DefaultSpread),
     aum |-> Get(basic.totalAssets, Zero)]

\* analyzer.py 225-234: the three sub-scores, or that an exception was raised
\* on the way (subscripting None, dividing by a zero spread, dividing None).
liquidity_scores(in) ==
    IF in.volume = None \/ in.spread = Zero \/ in.aum = None
    THEN Raise("Exception")
    ELSE Ok(SubScores(
            Min(R(VolumeCap, 1), RDiv(in.volume, R(VolumePerPoint, 1))),
            Min(R(SpreadCap, 1), RMul(RDiv(DefaultSpread, in.spread), R(SpreadCap, 1))),
            Min(R(AssetCap, 1), RMul(RDiv(in.aum, R(AssetFull, 1)), R(AssetCap, 1)))))

\* analyzer.py 237 and 239-244: the sum, or zero everywhere after an exception.
liquidity_total(scores) ==
    RAdd(RAdd(scores.volume_score, scores.spread_score), scores.asset_score)

\* analyzer.py 226-243: the three sub-scores written into the dict that
\* self.metrics names at the time.
with_scores(m, scores) ==
    [m EXCEPT !.volume_score = scores.volume_score,
              !.spread_score = scores.spread_score,
              !.asset_score = scores.asset_score]

\* The three sub-scores and the total that one run of the liquidity score
\* leaves and returns.
liquidity_run ==
    LET in == liquidity_inputs
        r == liquidity_scores(in)
        scores == IF r.exc = "" THEN r.value ELSE SubScores(Zero, Zero, Zero)
        total == IF r.exc = "" THEN liquidity_total(scores) ELSE Zero
    IN  [scores |-> scores, total |-> total,
         result |-> Ret("_calculate_liquidity_score", ticker, "", clock, "", total, in, None)]

\* _calculate_liquidity_score, analyzer.py 216-244.
calculate_liquidity_score ==
    LET run == liquidity_run
    IN  /\ ops < MaxOps
        /\ ops' = ops + 1
        /\ metrics' = with_scores(metrics, run.scores)
        /\ prev' = [last |-> run.result, before |-> prev.last]
        /\ ret' = run.result
        /\ UNCHANGED <<clock, ticks, ticker, limiterVars, cacheVars, dataVars>>

----------------------------------------------------------------------------
(* analyzer.py: the maximum drawdown of a price series *)

\* A maximum taken over the whole series at every point.
overall_max(S) ==
    [i \in 1..Len(S) |-> CHOOSE m \in {S[k] : k \in 1..Len(S)} :
                            \A k \in 1..Len(S) : S[k] <= m]

\* Series.expanding().max(): at each point the largest price up to it.
RECURSIVE expanding_max(_)
expanding_max(S) ==
    IF Len(S) <= 1 THEN S
    ELSE LET head == expanding_max(SubSeq(S, 1, Len(S) - 1))
             before == head[Len(head)]
         IN  Append(head, IF S[Len(S)] > before THEN S[Len(S)] ELSE before)

\* analyzer.py 260: (price_data - rolling_max) / rolling_max, point by point.
drawdowns(S) ==
    LET rolling_max == expanding_max(S)
    IN  [i \in 1..Len(S) |-> R(S[i] - rolling_max[i], rolling_max[i])]

\* Series.min() of a non-empty series of numbers.
RECURSIVE series_min(_)
series_min(D) ==
    IF Len(D) = 1 THEN D[1]
    ELSE LET m == series_min(SubSeq(D, 1, Len(D) - 1))
         IN  IF RLt(D[Len(D)], m) THEN D[Len(D)] ELSE m

\* _calculate_max_drawdown, analyzer.py 256-263, on a non-empty series of
\* positive prices.
max_drawdown(S) == series_min(drawdowns(S))

calculate_max_drawdown(S) ==
    /\ ret' = Ret("_calculate_max_drawdown", ticker, "", clock, "", max_drawdown(S),
                  [prices |-> S], None)
    /\ UNCHANGED <<clock, ticks, ops, ticker, metricVars, limiterVars, cacheVars, dataVars>>

----------------------------------------------------------------------------
(* analyzer.py: the Sharpe ratio of a series of daily returns *)

\* Values of numpy's float64 that are no numbers: the infinities, by sign,
\* and not-a-number.
Inf(sign) == [inf |-> sign]
NaN == [nan |-> TRUE]

\* Series.pct_change().dropna(), analyzer.py 157: the change of each price
\* against the one before it.
pct_change(S) == [i \in 1..(Len(S) - 1) |-> R(S[i + 1] - S[i], S[i])]

\* The sum of the values of D from place lo to place hi.
RECURSIVE range_sum(_, _, _)
range_sum(D, lo, hi) ==
    IF lo > hi THEN Zero
    ELSE IF lo = hi THEN D[lo]
    ELSE LET mid == (lo + hi) \div 2
         IN  RAdd(range_sum(D, lo, mid), range_sum(D, mid + 1, hi))

\* Series.sum().
series_sum(D) == range_sum(D, 1, Len(D))

\* Series.mean(): not-a-number on an empty series.
series_mean(D) == IF Len(D) = 0 THEN NaN ELSE RDiv(series_sum(D), R(Len(D), 1))

\* The square of Series.std(), which divides by n - 1: not-a-number on fewer
\* than two values.
series_var(D) ==
    IF Len(D) < 2 THEN NaN
    ELSE LET m == series_mean(D)
             sq == [i \in 1..Len(D) |-> RMul(RSub(D[i], m), RSub(D[i], m))]
         IN  RDiv(series_sum(sq), R(Len(D) - 1, 1))

\* A quotient a / sqrt(v) of float64, v being a variance: division by zero
\* gives an infinity of a's sign, or not-a-number for 0 / 0, and raises
\* nothing.
OverStd(a, v) ==
    IF a = NaN \/ v = NaN THEN NaN
    ELSE IF v = Zero
    THEN (IF a = Zero THEN NaN ELSE Inf(IF a.n > 0 THEN 1 ELSE -1))
    ELSE [num |-> a, var |-> v]

\* analyzer.py 249: the yearly risk-free rate and the trading days of a year.
RiskFreeRate == R(5, 100)
TradingDays == 252

\* _calculate_sharpe_ratio, analyzer.py 246-254. The annualizing factor
\* multiplies the mean and the deviation alike and is left out of the quotient.
sharpe_ratio(daily_returns) ==
    LET daily_rate == RDiv(RiskFreeRate, R(TradingDays, 1))
        excess_returns == [i \in 1..Len(daily_returns) |-> RSub(daily_returns[i], daily_rate)]
    IN  OverStd(series_mean(excess_returns), series_var(daily_returns))

calculate_sharpe_ratio(daily_returns) ==
    /\ ret' = Ret("_calculate_sharpe_ratio", ticker, "", clock, "",
                  sharpe_ratio(daily_returns), [returns |-> daily_returns], None)
    /\ UNCHANGED <<clock, ticks, ops, ticker, metricVars, limiterVars, cacheVars, dataVars>>

----------------------------------------------------------------------------
(* analyzer.py: the tracking error against the benchmark *)

\* The market's closing price of a fund on a day: the benchmark stays at $1,
\* any other fund alternates between $1 and $2.
ClosePrice(tk, day) == IF tk = Benchmark THEN 1 ELSE 1 + (day % 2)

\* The dates of a history's returns, pct_change().dropna(): every date but
\* the first.
return_dates(h) == {h.index[i] : i \in 2..Len(h.index)}

\* The return of a fund on a date of a history: the change of the closing
\* price against the row before.
return_on(tk, h, d) ==
    LET row == CHOOSE i \in 2..Len(h.index) : h.index[i] = d
        before == h.index[row - 1]
    IN  R(ClosePrice(tk, d) - ClosePrice(tk, before), ClosePrice(tk, before))

\* The dates of a set in ascending order.
ascending(dates) ==
    [i \in 1..Cardinality(dates) |->
        CHOOSE d \in dates : Cardinality({e \in dates : e < d}) = i - 1]

\* analyzer.py 196 and 205: the differences of the two funds' returns on the
\* dates both have (join='inner').
return_differences(h, b) ==
    LET aligned == ascending(return_dates(h) \cap return_dates(b))
    IN  [i \in 1..Len(aligned) |->
            RSub(return_on(ticker, h, aligned[i]), return_on(Benchmark, b, aligned[i]))]

\* A tracking error that lacks the test for an empty alignment.
tracking_error_unguarded(diffs) ==
    LET v == series_var(diffs)
    IN  IF v = NaN \/ v = Zero THEN v ELSE [sqrt_of |-> RMul(v, R(TradingDays, 1))]

\* analyzer.py 200-211: 0.0 without aligned returns, else the deviation of
\* the differences times sqrt(252), kept as the root of a number.
tracking_error_of(diffs) ==
    IF Len(diffs) = 0 THEN Zero
    ELSE LET v == series_var(diffs)
         IN  IF v = NaN \/ v = Zero THEN v ELSE [sqrt_of |-> RMul(v, R(TradingDays, 1))]

\* _calculate_tracking_error, analyzer.py 175-214; b is what the benchmark's
\* history(period="1y") gives should it be asked.
tracking_error_run(b) ==
    LET absent == benchmark_history = Missing
        bh == IF absent THEN b.hist ELSE benchmark_history
    IN  IF ticker = Benchmark
        THEN [value |-> Zero, fetched |-> FALSE, stored |-> benchmark_history]
        ELSE IF absent /\ b.fails
        THEN [value |-> Zero, fetched |-> TRUE, stored |-> benchmark_history]
        ELSE [value |-> IF price_history = None THEN Zero
                        ELSE tracking_error_of(return_differences(price_history, bh)),
              fetched |-> absent, stored |-> bh]

calculate_tracking_error(b) ==
    LET run == tracking_error_run(b)
    IN  /\ ops < MaxOps
        /\ ops' = ops + 1
        /\ benchmark_history' = run.stored
        /\ ret' = Ret("_calculate_tracking_error", ticker, "", clock, "", run.value,
                      None, [fetched |-> run.fetched])
        /\ UNCHANGED <<clock, ticks, ticker, metricVars, limiterVars, cacheVars, basic,
                       price_history, real_time>>

----------------------------------------------------------------------------
(* analyzer.py: the guard on the stored quote *)

\* Seconds from 1970-01-01 to the origin of the clock.
EpochNow == 1700000000

NanosPerSecond == 1000000000

\* pd.Timestamp(x), analyzer.py 794: a Timestamp as it is, a whole number as
\* that many nanoseconds since 1970.
to_timestamp(x) ==
    IF "instant" \in DOMAIN x THEN x
    ELSE Instant(((x.n \div x.d) \div NanosPerSecond) - EpochNow)

\* analyzer.py 798: 15 minutes, in seconds.
StaleAfter == 900

NoQuoteError == "ValueError: No real-time data available"
InvalidQuoteError == "ValueError: Invalid bid/ask prices - bid must be less than ask"
StaleDataError == "ValueError: Stale data - real-time data is more than 15 minutes old"

\* analyzer.py 786-799: the error the guard raises on a stored quote, "" for
\* none.
quote_error(rt) ==
    IF Truthy(Get(rt.bid, None)) /\ Truthy(Get(rt.ask, None)) /\ RLe(rt.ask, rt.bid)
    THEN InvalidQuoteError
    ELSE IF /\ Truthy(Get(rt.timestamp, None))
            /\ clock - to_timestamp(rt.timestamp).instant > StaleAfter
    THEN StaleDataError
    ELSE ""

\* validate_real_time_data, analyzer.py 779-799.
validate_real_time_data ==
    /\ ops < MaxOps
    /\ ops' = ops + 1
    /\ ret' = Ret("validate_real_time_data", ticker, "", clock,
                  IF real_time = Missing THEN NoQuoteError ELSE quote_error(real_time),
                  None, None, None)
    /\ UNCHANGED <<clock, ticks, ticker, metricVars, limiterVars, cacheVars, dataVars>>

----------------------------------------------------------------------------
(* analyzer.py: calculate_metrics *)

MissingColumnsError == "AttributeError"
EmptyHistoryError == "ValueError: Insufficient data"
InsufficientDataError == "ValueError: Insufficient data for reliable metrics calculation"

\* analyzer.py 159: the fewest daily returns that calculate_metrics accepts.
MinReturns == 30

\* The Close column of a stored history.
closes(h) == [i \in 1..Len(h.index) |-> ClosePrice(ticker, h.index[i])]

\* analyzer.py 165: Series.std() times sqrt(252), kept as the root of a number.
volatility_of(daily_returns) ==
    LET v == series_var(daily_returns)
    IN  IF v = NaN \/ v = Zero THEN v ELSE [sqrt_of |-> RMul(v, R(TradingDays, 1))]

\* analyzer.py 150-160: the error that stops calculate_metrics before it
\* computes anything, "" for none. validate_data reads the columns of the
\* stored history, which None does not have, and refuses an empty one; then
\* the returns, one fewer than the records, are counted.
metrics_error ==
    IF price_history = None THEN MissingColumnsError
    ELSE IF Len(price_history.index) = 0 THEN EmptyHistoryError
    ELSE IF Len(pct_change(closes(price_history))) < MinReturns THEN InsufficientDataError
    ELSE ""

\* analyzer.py 164-170: the dict that the assignment builds.
Bundle(volatility, tracking_error, liquidity_score, sharpe, drawdown) ==
    [NoMetrics EXCEPT !.volatility = volatility,
                      !.tracking_error = tracking_error,
                      !.liquidity_score = liquidity_score,
                      !.sharpe_ratio = sharpe,
                      !.max_drawdown = drawdown]

\* calculate_metrics, analyzer.py 145-173. The dict display is evaluated
\* before self.metrics is bound to it: the liquidity score, called from
\* inside it, writes its sub-scores into the dict that self.metrics named
\* until then. The result keeps what that dict held before the call (input)
\* and what it holds after it (ext).
calculate_metrics(b) ==
    LET price_data == closes(price_history)
        daily_returns == pct_change(price_data)
        tracking == tracking_error_run(b)
        liquidity == liquidity_run
        replaced == with_scores(metrics, liquidity.scores)
    IN  /\ ops < MaxOps
        /\ ops' = ops + 1
        /\ IF metrics_error # ""
           THEN /\ ret' = Ret("calculate_metrics", ticker, "", clock, metrics_error,
                              None, [before |-> metrics], [held |-> metrics])
                /\ UNCHANGED <<metrics, prev, benchmark_history>>
           ELSE /\ metrics' = Bundle(volatility_of(daily_returns), tracking.value,
                                     liquidity.total,
                                     sharpe_ratio(daily_returns),
                                     max_drawdown(price_data))
                /\ prev' = [last |-> liquidity.result, before |-> prev.last]
                /\ benchmark_history' = tracking.stored
                /\ ret' = Ret("calculate_metrics", ticker, "", clock, "", None,
                              [before |-> metrics], [held |-> replaced])
        /\ UNCHANGED <<clock, ticks, ticker, limiterVars, cacheVars, basic,
                       price_history, real_time>>

\* analyzer.data['price_history'] = frame, as tests/test_error_handling.py 18
\* does it.
set_price_history(h) ==
    /\ ops < MaxOps
    /\ ops' = ops + 1
    /\ price_history' = h
    /\ ret' = Ret("set_price_history", ticker, "", clock, "", None, None, None)
    /\ UNCHANGED <<clock, ticks, ticker, metricVars, limiterVars, cacheVars, basic,
                   benchmark_history, real_time>>

----------------------------------------------------------------------------
(* Specifications *)

NoFiles == [f \in {} |-> None]

\* The state after ETFAnalyzer(ticker): analyzer.py 34-40, with an empty cache
\* directory and a rate limiter that has seen no call.
Init ==
    /\ clock = 0
    /\ ticks = 0
    /\ ops = 0
    /\ intervals = [n \in {} |-> 0]
    /\ calls = <<>>
    /\ threads = [th \in Threads |-> Idle]
    /\ files = NoFiles
    /\ lastSet = NoFiles
    /\ ticker \in Tickers
    /\ basic = EmptyBasic
    /\ price_history = None
    /\ benchmark_history = Missing
    /\ real_time = Missing
    /\ metrics = NoMetrics
    /\ prev = [last |-> None, before |-> None]
    /\ ret = Ret("init", "", "", 0, "", None, None, None)

LimiterTicks == {1, MinInterval - 1, MinInterval}

LimiterNext ==
    \/ \E d \in LimiterTicks : Tick(d)
    \/ ops < MaxLimiterOps /\ \E page \in Pages : get_etf_com_metrics(page)

SpecLimiter == Init /\ [][LimiterNext]_vars

CacheTicks == {1, TTL - 1}

CacheNext ==
    \/ \E d \in CacheTicks : Tick(d)
    \/ ops < MaxCacheOps /\ \E t \in Tickers, s \in Sources : CacheGet(t, s)
    \/ ops < MaxCacheOps
          /\ \E t \in Tickers, s \in Sources, p \in Payloads : CacheSet(t, s, p)

InitCache == Init /\ ticker = "SPY"

ValidateTicks == {1, TTL - 1}
ValidateHistories == {Fetched(Hist(1, 30, R(1000, 1)))}
ValidateBenchmarks == {Fetched(Hist(1, 32, R(5000, 1)))}

ValidateNext ==
    \/ \E d \in ValidateTicks : Tick(d)
    \/ ops < MaxValidateOps
          /\ \E info \in Infos, page \in Pages : collect_basic_info(info, page)
    \/ ops < MaxValidateOps
          /\ \E h \in ValidateHistories, b \in ValidateBenchmarks :
                collect_performance(h, b)
    \/ ops < MaxValidateOps
          /\ \E page \in Pages, info \in Infos : validate_metrics(page, info)

SpecValidate == Init /\ [][ValidateNext]_vars

SpecCache == InitCache /\ [][CacheNext]_vars

CostsPages == {Page("wrong_page", None, None, None),
               Page("page", R(9, 10000), R(800, 1), R(500, 1))}
CostsHistories == {FetchFails, Fetched(Hist(1, 30, R(1000, 1))), Fetched(Hist(3, 35, Zero))}
CostsBenchmarks == {Fetched(Hist(1, 32, R(5000, 1)))}

CostsNext ==
    \/ ops < MaxCostsOps
       /\ \E info \in Infos, page \in CostsPages : collect_basic_info(info, page)
    \/ ops < MaxCostsOps
       /\ \E h \in CostsHistories, b \in CostsBenchmarks : collect_performance(h, b)
    \/ ops < MaxCostsOps
       /\ \E open \in BOOLEAN, q \in Quotes, has_row \in BOOLEAN :
             collect_real_time_data(open, q, has_row)
    \/ ops < MaxCostsOps /\ analyze_trading_costs

SpecCosts == Init /\ [][CostsNext]_vars

\* Differences in steps of 0.00001, and the metrics the CLI is asked about.
DiffSteps ==
    {0, 5, 9, 10, 11, 30, 49, 50, 51, 100, 4999, 5000, 5001, 9999, 10000, 10001,
     12000, 14999, 15000, 15001, 20000, 24999, 25000, 25001, 29999, 30000, 30001,
     40000, 100000}
Diffs == {None} \cup {R(k, 100000) : k \in DiffSteps}
MetricNames == {"Expense Ratio", "AUM", "Volume", "Volatility"}

StyleNext == \E diff \in Diffs, metric \in MetricNames : get_difference_style(diff, metric)

SpecStyle == InitCache /\ [][StyleNext]_vars

\* The funds the liquidity score is asked about: assets from none to $5B,
\* mean volume from 0 to 2,000,000 shares, spreads of 0, 1% and about 1%.
LiquidityInfos ==
    { Info(Missing, R(3, 10000), Missing, ta) :
        ta \in {Missing, None, R(100, 1), R(1000, 1), R(5000, 1)} }
LiquidityPages == {Page("page", None, None, None)}
LiquidityHistories == {Fetched(Hist(1, 30, R(v, 1))) : v \in {0, 100, 1000, 2000}}
LiquidityQuotes ==
    { Quote(None, None, R(0, 1)),
      Quote(R(100, 1), R(100, 1), R(0, 1)),
      Quote(R(199, 1), R(201, 1), R(0, 1)),
      Quote(R(100, 1), R(101, 1), R(0, 1)),
      Quote(R(101, 1), R(100, 1), R(0, 1)) }

LiquidityNext ==
    \/ ops < MaxLiquidityOps
       /\ \E info \in LiquidityInfos, page \in LiquidityPages : collect_basic_info(info, page)
    \/ ops < MaxLiquidityOps
       /\ \E h \in LiquidityHistories, b \in CostsBenchmarks : collect_performance(h, b)
    \/ ops < MaxLiquidityOps
       /\ \E q \in LiquidityQuotes : collect_real_time_data(TRUE, q, TRUE)
    \/ ops < MaxLiquidityOps /\ calculate_liquidity_score

SpecLiquidity == InitCache /\ [][LiquidityNext]_vars

\* Two funds scored one after the other on one analyzer: 1,000,000 shares and
\* $1B, 100,000 shares and $100M, at a spread of 0 or of 1%.
PairInfos == {Info(Missing, R(3, 10000), Missing, R(ta, 1)) : ta \in {100, 1000}}
PairHistories == {Fetched(Hist(1, 30, R(v, 1))) : v \in {100, 1000}}
PairQuotes == {Quote(R(100, 1), R(100, 1), R(0, 1)), Quote(R(199, 1), R(201, 1), R(0, 1))}

PairNext ==
    \/ \E info \in PairInfos, page \in LiquidityPages : collect_basic_info(info, page)
    \/ \E h \in PairHistories, b \in CostsBenchmarks : collect_performance(h, b)
    \/ \E q \in PairQuotes : collect_real_time_data(TRUE, q, TRUE)
    \/ calculate_liquidity_score

SpecLiquidityPair == InitCache /\ [][PairNext]_vars

\* Price series: up to MaxLen closing prices of $1, $2 or $3.
Prices == {1, 2, 3}
PriceSeries == UNION {[1..n -> Prices] : n \in 1..MaxLen}

SeriesNext ==
    \/ \E S \in PriceSeries : calculate_max_drawdown(S)
    \/ \E S \in PriceSeries : calculate_sharpe_ratio(pct_change(S))

SpecSeries == InitCache /\ [][SeriesNext]_vars

\* Histories for the tracking error: the subject's year, and a benchmark's
\* that overlaps it, misses it altogether, or is empty.
TrackingHistories ==
    {FetchFails, Fetched(Hist(1, 30, R(1000, 1))), Fetched(Hist(32, 62, R(1000, 1)))}
TrackingBenchmarks ==
    { FetchFails, Fetched(Hist(1, 32, R(5000, 1))), Fetched(Hist(41, 70, R(5000, 1))),
      Fetched(Hist(1, 0, Zero)) }

TrackingNext ==
    \/ ops < MaxTrackingOps
       /\ \E h \in TrackingHistories, b \in TrackingBenchmarks : collect_performance(h, b)
    \/ ops < MaxTrackingOps
       /\ \E b \in TrackingBenchmarks : calculate_tracking_error(b)

SpecTracking == Init /\ [][TrackingNext]_vars

\* Live quotes stamped with the second they are asked for, an earlier one,
\* or not at all: sound, locked, crossed and one-sided ones.
QuoteStamps == {None, R(EpochNow + clock, 1), R(EpochNow - 3600, 1)}
GuardQuotes ==
    { Quote(bid, ask, stamp) :
        bid \in {R(100, 1)}, ask \in {None, R(99, 1), R(100, 1), R(101, 1)},
        stamp \in QuoteStamps }

QuoteTicks == {1, StaleAfter, StaleAfter + 1}

QuoteNext ==
    \/ \E d \in QuoteTicks : Tick(d)
    \/ ops < MaxQuoteOps
       /\ \E open \in BOOLEAN, q \in GuardQuotes : collect_real_time_data(open, q, TRUE)
    \/ ops < MaxQuoteOps /\ validate_real_time_data

SpecQuote == InitCache /\ [][QuoteNext]_vars

\* Histories for collect_performance: a year that fails, is a day short, is
\* just long enough or longer, and benchmarks that fail, are short, cover the
\* subject or overlap it on fewer than 30 dates.
PerformanceHistories ==
    { FetchFails, Fetched(Hist(1, 29, R(1000, 1))), Fetched(Hist(1, 30, R(1000, 1))),
      Fetched(Hist(3, 35, Zero)), Fetched(Hist(1, 40, R(1000, 1))) }
PerformanceBenchmarks ==
    { FetchFails, Fetched(Hist(1, 29, R(5000, 1))), Fetched(Hist(1, 32, R(5000, 1))),
      Fetched(Hist(10, 45, R(5000, 1))) }

PerformanceNext ==
    ops < MaxPerformanceOps
    /\ \E h \in PerformanceHistories, b \in PerformanceBenchmarks : collect_performance(h, b)

SpecPerformance == Init /\ [][PerformanceNext]_vars

\* What calculate_metrics is run on: a fund with $1B and a history of 30, 31
\* or 33 days from the provider, or one of none or 29 days set by hand.
MetricsInfos == {Info(Missing, R(3, 10000), Missing, R(1000, 1))}
MetricsHistories ==
    { Fetched(Hist(1, 30, R(1000, 1))), Fetched(Hist(1, 31, R(1000, 1))),
      Fetched(Hist(3, 35, R(100, 1))) }
MetricsBenchmarks == {FetchFails, Fetched(Hist(1, 40, R(5000, 1)))}
HandSetHistories == {Hist(1, 0, Zero), Hist(1, 29, R(1000, 1))}

MetricsNext ==
    \/ ops < MaxMetricsOps
       /\ \E info \in MetricsInfos, page \in LiquidityPages : collect_basic_info(info, page)
    \/ ops < MaxMetricsOps
       /\ \E h \in MetricsHistories, b \in MetricsBenchmarks : collect_performance(h, b)
    \/ ops < MaxMetricsOps /\ \E h \in HandSetHistories : set_price_history(h)
    \/ ops < MaxMetricsOps /\ \E b \in MetricsBenchmarks : calculate_metrics(b)

SpecMetrics == Init /\ [][MetricsNext]_vars

\* Two callers in the rate limiter at once, and the time that passes.
ThreadsNext ==
    \/ \E d \in LimiterTicks : Tick(d)
    \/ \E th \in Threads : Enter(th)
    \/ \E th \in Threads : Check(th)
    \/ \E th \in Threads : Wake(th)
    \/ \E th \in Threads : Store(th)
    \/ \E th \in Threads : Invoke(th)

SpecThreads == InitCache /\ [][ThreadsNext]_vars

NoteNext == \E diff \in Diffs, metric \in MetricNames : get_difference_note(diff, metric)

SpecNote == InitCache /\ [][NoteNext]_vars

----------------------------------------------------------------------------
(* Claims about the rate limiter *)

\* C1: the wrapped function's consecutive invocations start at least
\* 60/calls_per_minute seconds apart, also when the earlier one had to wait.
C1_StartsSpaced ==
    \A i \in 1..(Len(calls) - 1) : calls[i + 1].at - calls[i].at >= MinInterval

----------------------------------------------------------------------------
(* Claims about the cache *)

RetFile == cache_file(ret.ticker, ret.source)

\* C2: get returns the stored payload only when the entry exists and is less
\* than 24 hours old, a miss otherwise (also at exactly 24 hours), and a get
\* leaves every entry as it was.
C2_GetState ==
    ret.op = "get" =>
        IF RetFile \in DOMAIN files /\ ret.at - files[RetFile].timestamp < 86400
        THEN ret.value = lastSet[RetFile].data
        ELSE ret.value = None

C2_GetStep == (ops' = ops + 1 /\ ret'.op = "get") => files' = files

C2_GetFreshOnly == []C2_GetState /\ [][C2_GetStep]_vars

C2_Witness ==
    /\ ret.op = "get"
    /\ RetFile \in DOMAIN files
    /\ lastSet[RetFile].data # None
    /\ ret.at - files[RetFile].timestamp = 86400
    /\ ret.value = None

\* C3: a get within 24 hours of the last set on an entry returns exactly the
\* payload of that set, also when the set replaced a stale entry.
C3_LastSetWins ==
    (ret.op = "get" /\ RetFile \in DOMAIN lastSet
                    /\ ret.at - lastSet[RetFile].at < 86400)
        => ret.value = lastSet[RetFile].data

C3_Witness ==
    /\ ret.op = "get"
    /\ RetFile \in DOMAIN lastSet
    /\ lastSet[RetFile].replaced >= 0
    /\ lastSet[RetFile].at - lastSet[RetFile].replaced >= 86400
    /\ ret.at >= lastSet[RetFile].at
    /\ ret.value = lastSet[RetFile].data
    /\ ret.value # None

----------------------------------------------------------------------------
(* Claims about validate_metrics *)

Validated == ret.op = "validate_metrics"

\* C4: the first successful ETF.com fetch creates a cache entry, and a later
\* validate_metrics within 24 hours of it does not invoke ETF.com again.
C4_CachedLookup ==
    /\ (\E i \in 1..Len(calls) : calls[i].outcome = "page") => DOMAIN files # {}
    /\ \A i, j \in 1..Len(calls) :
          (i < j /\ calls[i].outcome = "page" /\ calls[j].by = "validate_metrics")
              => calls[j].at - calls[i].at >= 86400

\* The two sides of each reconciled metric, as the analyzer and the lookup
\* of the last validate_metrics held them.
OurExpense == Get(basic.expenseRatio, None)
OurAum == Get(basic.totalAssets, None)
OurVolume == IF price_history = None THEN None ELSE price_history.Volume
ExtExpense == IF ret.ext = None THEN None ELSE Get(ret.ext.expense_ratio, None)
ExtAum == IF ret.ext = None THEN None ELSE Get(ret.ext.aum, None)
ExtVolume ==
    IF ret.ext = None THEN None
    ELSE IF ret.ext.avg_volume # Missing THEN ret.ext.avg_volume
    ELSE Get(ret.ext.volume, None)

OneSided(our, ext) == (our = None) # (ext = None)

ReportedOneSided(rec, our, ext) ==
    /\ rec # Missing
    /\ rec.our_value = our
    /\ rec.external_value = ext
    /\ rec.difference = None

\* C5: validate_metrics never raises, and a metric with exactly one side
\* available is in the result with that value and a null difference.
C5_OneSidedReported ==
    Validated =>
        /\ ret.exc = ""
        /\ OneSided(OurExpense, ExtExpense)
              => ReportedOneSided(ret.value.ExpenseRatio, OurExpense, ExtExpense)
        /\ OneSided(OurAum, ExtAum)
              => ReportedOneSided(ret.value.AUM, OurAum, ExtAum)
        /\ OneSided(OurVolume, ExtVolume)
              => ReportedOneSided(ret.value.Volume, OurVolume, ExtVolume)

\* C7: when ETF.com yields no expense ratio (the browser fails, the page is
\* another fund's, or the field does not parse), the external value comes
\* from the next source instead of being reported as missing.
PrimaryHasNoExpense ==
    ret.input.kind # "page" \/ ret.input.expense_ratio = None

C7_FallbackUsed ==
    (Validated /\ ret.exc = "" /\ PrimaryHasNoExpense)
        => /\ ret.value.ExpenseRatio # Missing
           /\ ret.value.ExpenseRatio.external_value # None

----------------------------------------------------------------------------
(* Claims about the severity classification *)

\* A difference in units of 0.00001.
Pcm(x) == x.n * (100000 \div x.d)

Band(k, low, medium) ==
    IF k <= low THEN "green" ELSE IF k <= medium THEN "yellow" ELSE "red"

\* C6: expense ratio is green up to 0.0001 and yellow up to 0.0005, AUM
\* green up to 0.10 and yellow up to 0.25, volume green up to 0.15 and
\* yellow up to 0.30, red above; a null difference has no severity.
C6_SeverityBands ==
    ret.op = "_get_difference_style" =>
        LET d == ret.input.diff
            metric == ret.source
            style == ret.value.style
        IN  /\ d = None => style \notin {"green", "yellow", "red"}
            /\ (d # None /\ metric = "Expense Ratio") => style = Band(Pcm(d), 10, 50)
            /\ (d # None /\ metric = "AUM") => style = Band(Pcm(d), 10000, 25000)
            /\ (d # None /\ metric = "Volume") => style = Band(Pcm(d), 15000, 30000)

C6_Witness ==
    /\ ret.op = "_get_difference_style"
    /\ ret.source = "AUM"
    /\ ret.input.diff = R(25, 100)
    /\ ret.value.style = "yellow"

----------------------------------------------------------------------------
(* Claims about analyze_trading_costs *)

Analyzed == ret.op = "analyze_trading_costs"

\* twice(x, y): y is exactly two times x.
Twice(x, y) == y = R(2 * x.n, x.d)

\* C8: on every return path round_trip is exactly twice one_way.
C8_RoundTripTwice == Analyzed => Twice(ret.value.one_way, ret.value.round_trip)

C8_Witness ==
    /\ Analyzed
    /\ ret.value.spread_cost # None
    /\ ret.value.expense_ratio # Zero
    /\ ret.value.one_way # ret.value.expense_ratio

\* The stored quote has no usable bid and ask.
QuoteUnusable ==
    \/ real_time = Missing
    \/ real_time.bid = None
    \/ real_time.ask = None
    \/ real_time.bid.n <= 0
    \/ real_time.ask.n <= 0

\* C9: without real-time data, or with an absent or non-positive bid or ask,
\* the result has null implicit costs, one_way equal to the expense ratio,
\* round_trip twice that, and a first alert saying the data is unavailable.
C9_ExpenseOnly ==
    (Analyzed /\ QuoteUnusable) =>
        /\ ret.exc = ""
        /\ ret.value.spread_cost = None
        /\ ret.value.market_impact = None
        /\ ret.value.one_way = Get(basic.expenseRatio, Zero)
        /\ Twice(Get(basic.expenseRatio, Zero), ret.value.round_trip)
        /\ Len(ret.value.alerts) >= 1
        /\ ret.value.alerts[1] \in {NoRealTimeAlert, NoBidAskAlert}

C9_Witness ==
    /\ Analyzed
    /\ real_time # Missing
    /\ real_time.bid # None
    /\ real_time.bid.n < 0
    /\ price_history # None
    /\ basic.expenseRatio # Missing
    /\ basic.expenseRatio # Zero
    /\ ret.value.alerts = <<NoBidAskAlert>>

\* The spread of the stored quote as a fraction of its midpoint.
QuoteSpreadPct ==
    RDiv(RSub(real_time.ask, real_time.bid),
         RDiv(RAdd(real_time.bid, real_time.ask), R(2, 1)))

HasSpreadAlert ==
    \E i \in 1..Len(ret.value.alerts) :
        ret.value.alerts[i] \notin
            {NoRealTimeAlert, NoBidAskAlert, DefaultImpactAlert, ErrorAlert}

HasVolume == price_history # None /\ price_history.Volume.n > 0

\* C10: with a valid bid and ask, a spread of 0.5% of the midpoint or more
\* puts a spread alert in the alerts; below that, with volume data, the
\* alerts are empty.
C10_SpreadAlert ==
    (Analyzed /\ ~QuoteUnusable) =>
        /\ RLe(R(5, 1000), QuoteSpreadPct) => HasSpreadAlert
        /\ (RLt(QuoteSpreadPct, R(5, 1000)) /\ HasVolume) => ret.value.alerts = <<>>

\* C11: with a valid positive bid and ask but no volume data (no price
\* history, as in a new analyzer, or a history without volume) the result
\* still has spread_cost = (ask - bid) / midpoint / 2 and market_impact =
\* 0.1 x spread_cost, and the default-market-impact alert is in the alerts.
C11_DefaultImpact ==
    (Analyzed /\ ~QuoteUnusable /\ ~HasVolume) =>
        /\ ret.value.spread_cost = RDiv(QuoteSpreadPct, R(2, 1))
        /\ ret.value.market_impact = RMul(RDiv(QuoteSpreadPct, R(2, 1)), R(1, 10))
        /\ \E i \in 1..Len(ret.value.alerts) : ret.value.alerts[i] = DefaultImpactAlert

----------------------------------------------------------------------------
(* Claims about the liquidity score *)

Scored == ret.op = "_calculate_liquidity_score"

\* lo <= x <= hi for a number x and whole numbers lo, hi.
Within(x, lo, hi) == lo * x.d <= x.n /\ x.n <= hi * x.d

\* The inputs of the last score are non-negative where they are there.
NonNegativeInputs ==
    /\ ret.input.volume # None => ret.input.volume.n >= 0
    /\ ret.input.spread.n >= 0
    /\ ret.input.aum # None => ret.input.aum.n >= 0

\* C12: for non-negative volume, spread and assets, a zero spread and missing
\* inputs included, the liquidity score is in [0, 100], volume_score in
\* [0, 40], spread_score in [0, 30] and asset_score in [0, 30].
C12_ScoreRange ==
    (Scored /\ NonNegativeInputs) =>
        /\ Within(ret.value, 0, 100)
        /\ Within(metrics.volume_score, 0, 40)
        /\ Within(metrics.spread_score, 0, 30)
        /\ Within(metrics.asset_score, 0, 30)

C12_Witness ==
    /\ Scored
    /\ ret.input.volume = R(2000, 1)
    /\ ret.input.aum = R(5000, 1)
    /\ ret.input.spread = R(1, 100)
    /\ ret.value = R(100, 1)

\* The sub-scores as the inputs of the last score allow them: the capped
\* value where the input can be used, 0 where it is missing or unusable.
VolumePart ==
    IF ret.input.volume = None THEN Zero
    ELSE IF ret.input.volume.n >= 40 * 25 * ret.input.volume.d THEN R(40, 1)
    ELSE R(ret.input.volume.n, 25 * ret.input.volume.d)

SpreadPart ==
    IF ret.input.spread.n = 0 THEN Zero
    ELSE IF 100 * ret.input.spread.n <= ret.input.spread.d THEN R(30, 1)
    ELSE R(30 * ret.input.spread.d, 100 * ret.input.spread.n)

AssetPart ==
    IF ret.input.aum = None THEN Zero
    ELSE IF ret.input.aum.n >= 1000 * ret.input.aum.d THEN R(30, 1)
    ELSE R(30 * ret.input.aum.n, 1000 * ret.input.aum.d)

\* C13: a sub-score whose input is missing or unusable adds 0 and nothing is
\* raised, while the other sub-scores still add their capped values: the
\* total is the sum of the sub-scores that could be computed.
C13_PartialSum ==
    (Scored /\ NonNegativeInputs) =>
        /\ ret.exc = ""
        /\ ret.value = RAdd(RAdd(VolumePart, SpreadPart), AssetPart)

\* The last two scores are of two funds with the same spread.
TwoScores ==
    /\ Scored
    /\ prev.before # None
    /\ prev.before.input.spread = ret.input.spread

\* The fund of score a has volume and assets at least those of the fund of b.
AtLeast(a, b) ==
    /\ a.input.volume # None /\ b.input.volume # None
    /\ a.input.aum # None /\ b.input.aum # None
    /\ RLe(b.input.volume, a.input.volume)
    /\ RLe(b.input.aum, a.input.aum)

\* Fund a trades 1,000,000 shares and holds $1B, fund b 100,000 and $100M.
LargeAndSmall(a, b) ==
    /\ a.input.volume = R(1000, 1) /\ a.input.aum = R(1000, 1)
    /\ b.input.volume = R(100, 1) /\ b.input.aum = R(100, 1)

\* C14: of two funds with the same spread, the one with at least the volume
\* and the assets of the other scores at least as high; a fund with 1,000,000
\* shares and $1B scores strictly higher than one with 100,000 and $100M.
C14_Monotone ==
    TwoScores =>
        /\ AtLeast(ret, prev.before) => RLe(prev.before.value, ret.value)
        /\ AtLeast(prev.before, ret) => RLe(ret.value, prev.before.value)
        /\ LargeAndSmall(ret, prev.before) => RLt(prev.before.value, ret.value)
        /\ LargeAndSmall(prev.before, ret) => RLt(ret.value, prev.before.value)

----------------------------------------------------------------------------
(* Claims about the metrics of a price series *)

\* The largest of the first i prices of S.
RunningMax(S, i) == CHOOSE m \in {S[k] : k \in 1..i} : \A k \in 1..i : S[k] <= m

\* (price - running maximum) / running maximum at point i.
DrawdownAt(S, i) == R(S[i] - RunningMax(S, i), RunningMax(S, i))

NonDecreasing(S) == \A i, j \in 1..Len(S) : i <= j => S[i] <= S[j]

\* C15: the maximum drawdown of a non-empty series of positive prices is the
\* least of (price - running maximum) / running maximum over its points, is
\* never above 0, and is 0 exactly when the series never falls.
C15_MaxDrawdown ==
    ret.op = "_calculate_max_drawdown" =>
        LET S == ret.input.prices
        IN  /\ \E i \in 1..Len(S) : ret.value = DrawdownAt(S, i)
            /\ \A i \in 1..Len(S) : RLe(ret.value, DrawdownAt(S, i))
            /\ ret.value.n <= 0
            /\ ret.value = Zero <=> NonDecreasing(S)

C15_Witness ==
    /\ ret.op = "_calculate_max_drawdown"
    /\ ret.input.prices = <<2, 3, 1, 3>>
    /\ ret.value = R(-2, 3)

\* The standard deviation of the returns of the last Sharpe ratio is zero:
\* there are two or more of them and they are all the same.
ZeroDeviation ==
    /\ Len(ret.input.returns) >= 2
    /\ \A i, j \in 1..Len(ret.input.returns) : ret.input.returns[i] = ret.input.returns[j]

\* C17: _calculate_sharpe_ratio returns exactly 0.0, no infinity, no undefined
\* value and no exception, when the deviation of the daily returns is zero.
C17_SharpeZero ==
    (ret.op = "_calculate_sharpe_ratio" /\ ZeroDeviation) =>
        /\ ret.exc = ""
        /\ ret.value = Zero

TrackingDone == ret.op = "_calculate_tracking_error"

\* The two stored histories have no date of returns in common.
NoAlignedReturns ==
    /\ price_history # None
    /\ benchmark_history # Missing
    /\ \A d \in Dates(price_history.index) \cap Dates(benchmark_history.index) :
          \/ d = price_history.index[1]
          \/ d = benchmark_history.index[1]

\* C16: _calculate_tracking_error returns exactly 0.0, raising nothing and
\* fetching no benchmark data, when the benchmark is the subject itself; and
\* it returns exactly 0.0, raising nothing, when the two funds' returns have
\* no date in common.
C16_TrackingZero ==
    /\ (TrackingDone /\ ticker = Benchmark) =>
          ret.exc = "" /\ ret.value = Zero /\ ~ret.ext.fetched
    /\ (TrackingDone /\ NoAlignedReturns) => ret.exc = "" /\ ret.value = Zero

C16_Witness ==
    /\ TrackingDone
    /\ ticker # Benchmark
    /\ NoAlignedReturns
    /\ price_history.index # <<>>
    /\ benchmark_history.index # <<>>
    /\ ret.value = Zero

----------------------------------------------------------------------------
(* Claims about the real-time quote *)

Guarded == ret.op = "validate_real_time_data" /\ real_time # Missing

BothPositive ==
    /\ real_time.bid # None /\ real_time.ask # None
    /\ real_time.bid.n > 0 /\ real_time.ask.n > 0

Crossed == BothPositive /\ RLe(real_time.ask, real_time.bid)

\* The moment a stored timestamp stands for, in seconds of the clock: a
\* Timestamp's own moment, a whole number's seconds since 1970.
StampedAt(ts) ==
    IF "instant" \in DOMAIN ts THEN ts.instant ELSE (ts.n \div ts.d) - EpochNow

\* The age of the stored quote when the guard was called, in seconds.
QuoteAge == ret.at - StampedAt(real_time.timestamp)

QuoteGuardState ==
    Guarded =>
        /\ Crossed => ret.exc = InvalidQuoteError
        /\ (~Crossed /\ real_time.timestamp # None /\ QuoteAge > 15 * 60) =>
              ret.exc = StaleDataError
        /\ (BothPositive /\ ~Crossed /\ real_time.timestamp # None /\ QuoteAge <= 15 * 60) =>
              ret.exc = ""

QuoteGuardStep == (ret'.op = "validate_real_time_data" /\ ops' # ops) => real_time' = real_time

\* C18: validate_real_time_data fails with the invalid-quote error when bid
\* and ask are both there and positive and bid >= ask, fails with the
\* stale-data error when the quote is more than 15 minutes old, accepts a
\* quote with bid < ask that is at most 15 minutes old, and never changes the
\* stored quote.
C18_QuoteGuard == []QuoteGuardState /\ [][QuoteGuardStep]_vars

Collected == ret.op = "collect_real_time_data" /\ ret.value # None

\* C19: in every quote collect_real_time_data returns with both a bid and an
\* ask, spread = ask - bid, spread >= 0 and spread_pct = spread divided by
\* the midpoint (bid + ask) / 2.
C19_DerivedSpread ==
    (Collected /\ ret.value.bid # None /\ ret.value.ask # None) =>
        /\ ret.value.spread # Missing
        /\ ret.value.spread_pct # Missing
        /\ ret.value.spread = RSub(ret.value.ask, ret.value.bid)
        /\ ret.value.spread.n >= 0
        /\ ret.value.spread_pct =
              RDiv(ret.value.spread, RDiv(RAdd(ret.value.bid, ret.value.ask), R(2, 1)))

\* C20: every result of collect_real_time_data that is not null has the
\* 'iiv' field, null when no indicative value is known, with the market open
\* or closed, from the live quote or from the last known values.
C20_IivPresent == Collected => ret.value.iiv # Missing

----------------------------------------------------------------------------
(* Claims about collect_performance *)

Performed == ret.op = "collect_performance"

\* The dates of an index rise from row to row.
Increasing(index) == \A i \in 1..(Len(index) - 1) : index[i] < index[i + 1]

\* Fewer than 30 records in the subject's history, or with another benchmark
\* in the benchmark's history or among the dates the two have in common.
TooShort ==
    \/ Len(ret.input.subject.hist.index) < 30
    \/ /\ ticker # Benchmark
       /\ ret.input.benchmark # None
       /\ \/ Len(ret.input.benchmark.hist.index) < 30
          \/ Cardinality(Dates(ret.input.subject.hist.index)
                           \cap Dates(ret.input.benchmark.hist.index)) < 30

\* C21: after a successful collect_performance with a benchmark other than
\* the subject the two stored histories hold the same dates, those that the
\* two fetched histories have in common, in increasing order and at least 30
\* of them; and collect_performance fails whenever the subject's history, the
\* benchmark's or their common dates number fewer than 30.
C21_AlignedHistories ==
    /\ (Performed /\ ret.exc = "" /\ ticker # Benchmark) =>
          /\ price_history.index = benchmark_history.index
          /\ Dates(price_history.index) =
                Dates(ret.input.subject.hist.index)
                   \cap Dates(ret.input.benchmark.hist.index)
          /\ Increasing(price_history.index)
          /\ Increasing(benchmark_history.index)
          /\ Len(price_history.index) >= 30
          /\ Len(benchmark_history.index) >= 30
    /\ (Performed /\ TooShort) => ret.exc # ""

C21_Witness ==
    /\ Performed
    /\ ret.exc = ""
    /\ ticker # Benchmark
    /\ Len(price_history.index) = 30
    /\ Len(ret.input.subject.hist.index) > 30
    /\ Len(ret.input.benchmark.hist.index) > 30

\* A call of collect_performance that raised leaves the two stored histories
\* as they were.
FailureKeepsHistories ==
    (ops' = ops + 1 /\ ret'.op = "collect_performance" /\ ret'.exc # "") =>
        /\ price_history' = price_history
        /\ benchmark_history' = benchmark_history

\* C29: whenever collect_performance raises (the subject's fetch fails, the
\* subject's or the benchmark's history is too short, the benchmark's fetch
\* fails, or fewer than 30 dates overlap), the stored price_history and
\* benchmark_history are what they were before the call.
C29_AtomicOnFailure == [][FailureKeepsHistories]_vars

----------------------------------------------------------------------------
(* Claims about calculate_metrics *)

Calculated == ret.op = "calculate_metrics"

\* C22: after a successful calculate_metrics the analyzer's metrics hold
\* liquidity_score and the three sub-scores volume_score, spread_score and
\* asset_score, and liquidity_score is the sum of the three.
C22_BundleHasSubScores ==
    (Calculated /\ ret.exc = "") =>
        /\ metrics.liquidity_score # Missing
        /\ metrics.volume_score # Missing
        /\ metrics.spread_score # Missing
        /\ metrics.asset_score # Missing
        /\ metrics.liquidity_score =
              RAdd(RAdd(metrics.volume_score, metrics.spread_score), metrics.asset_score)

\* C23: the mapping that was the analyzer's metrics before a calculate_metrics
\* call holds after the call what it held before it: no key added, removed or
\* overwritten.
C23_FreshBundle == Calculated => ret.ext.held = ret.input.before

\* The records of the stored price history.
Records == Len(price_history.index)

InsufficientData == ret.exc \in {EmptyHistoryError, InsufficientDataError}

\* C24: calculate_metrics fails with an insufficient-data error on a price
\* history of fewer than 30 records and succeeds on every one of 30 or more,
\* those that collect_performance accepts among them.
C24_MinimumLength ==
    (Calculated /\ price_history # None) =>
        /\ Records < 30 => InsufficientData
        /\ Records >= 30 => ret.exc = ""

----------------------------------------------------------------------------
(* Claims about collect_basic_info *)

Collecting == ops' = ops + 1 /\ ret'.op = "collect_basic_info"

\* The call went to ETF.com: the rate-limited lookup was invoked once more.
LookedUp == Len(calls') = Len(calls) + 1

\* The provider's info holds one of the three expense-ratio fields.
HasExpenseField(info) ==
    \/ Truthy(Get(info.expenseRatio, None))
    \/ Truthy(Get(info.annualReportExpenseRatio, None))
    \/ Truthy(Get(info.totalExpenseRatio, None))

\* The browser failed during the lookup of this call.
BrowserFailed == LookedUp /\ calls'[Len(calls')].outcome = "webdriver_error"

BasicInfoStep ==
    Collecting =>
        /\ (LookedUp => ~ret'.input.info.fails /\ ~HasExpenseField(ret'.input.info))
        /\ (BrowserFailed => ret'.exc = "RuntimeError" /\ basic' = basic)

\* C25: collect_basic_info goes to ETF.com only when the provider's info has
\* none of the three expense-ratio fields; when the browser fails during that
\* lookup, collect_basic_info raises a RuntimeError and leaves the stored
\* basic info as it was.
C25_BrowserFailure == [][BasicInfoStep]_vars

----------------------------------------------------------------------------
(* Claims about the isolation of cache entries *)

Setting == ops' = ops + 1 /\ ret'.op = "set"

\* What get returns for every pair but the one that was set is what it
\* returned before the set.
OthersKept ==
    \A t \in Tickers, s \in Sources :
        <<t, s>> # <<ret'.ticker, ret'.source>> =>
            cache_get(files', clock', t, s) = cache_get(files, clock, t, s)

\* C26: a set on one (ticker, source) pair never changes what get returns for
\* another pair.
C26_KeyIsolation == [][Setting => OthersKept]_vars

----------------------------------------------------------------------------
(* Claims about concurrent callers of the rate limiter *)

\* C27: with two callers in the same rate-limited operation at once, in every
\* interleaving of their reads and writes of the last call time any two
\* invocations of the wrapped function start at least 60/calls_per_minute
\* seconds apart.
C27_ConcurrentSpacing ==
    \A i, j \in 1..Len(calls) :
        i < j => calls[j].at - calls[i].at >= MinInterval

----------------------------------------------------------------------------
(* Claims about the floor of the trading costs *)

NonNegative(v) == v = None \/ RLe(Zero, v)

\* C28: for every stored quote, crossed ones with bid > ask among them, and
\* every non-negative expense ratio, the one-way total of
\* analyze_trading_costs is at least the expense ratio: neither the spread
\* cost nor the market impact is negative.
C28_CostFloor ==
    (Analyzed /\ RLe(Zero, ret.value.expense_ratio)) =>
        /\ RLe(ret.value.expense_ratio, ret.value.one_way)
        /\ NonNegative(ret.value.spread_cost)
        /\ NonNegative(ret.value.market_impact)

----------------------------------------------------------------------------
(* Claims about the note on a difference *)

Noted == ret.op = "_get_difference_note"

\* The severity of the difference that the note was asked for.
SeverityOfNoted == difference_style(ret.input.diff, ret.source)

\* C30: for the expense ratio, the AUM and the volume alike, a difference
\* classified green gets an empty note and a difference classified red gets a
\* note that is not empty.
C30_NoteMatchesSeverity ==
    (Noted /\ ret.source \in {"Expense Ratio", "AUM", "Volume"}) =>
        /\ SeverityOfNoted = "green" => ret.value.note = ""
        /\ SeverityOfNoted = "red" => ret.value.note # ""

====
